---- MODULE Spec2Model ----
(***************************************************************************)
(* A model of gosseract's client.go: the Client argument builder in front  *)
(* of tesseract::TessBaseAPI.                                               *)
(*                                                                         *)
(* Modelling conventions                                                   *)
(*  - a native TessBaseAPI handle is a positive integer, the index of its  *)
(*    slot in `heap`; heap[h] counts the C.Free calls made on it.          *)
(*  - a C or Go pointer (to a char array, a PageSegMode, a string) is a   *)
(*    sequence: <<>> is the nil pointer and <<v>> points to v.             *)
(*  - identifiers, paths, keys and values are TLA+ strings; the engine's   *)
(*    recognised text is a sequence of one-character strings, so that      *)
(*    strings.Trim is computed character by character.                     *)
(*  - the engine is opaque: what each C call answers is an input of the    *)
(*    action that makes the call (a result code, the set of keys the       *)
(*    engine rejects, the recognised text).  Go's map iteration order is   *)
(*    an input too (a permutation of the map's keys).                      *)
(*  - a C call on a handle that was already freed is undefined behaviour:  *)
(*    the process either dies in that call or the call returns an          *)
(*    arbitrary answer.                                                    *)
(*  - every engine call an operation makes is recorded, in order, in       *)
(*    last.calls, next to the operation's name, arguments and results.     *)
(***************************************************************************)
EXTENDS Integers, Sequences, FiniteSets, TLC

VARIABLES
    client,   \* the Client the caller holds (NoClient before NewClient)
    heap,     \* heap[h]: number of C.Free calls on native handle h
    fs,       \* the file system: path -> "absent" | "file" | "dir"
    last,     \* the operation that ran last, its engine calls and results
    crashed   \* the process died inside a C call (undefined behaviour)

vars == <<client, heap, fs, last, crashed>>

----------------------------------------------------------------------------
(* Bounds of the model *)

\* handles C.Create may hand out in one run
MaxHandles == 2
\* C.Free calls counted on one handle
MaxFrees == 2
\* length of a language list
MaxLangs == 2
\* length of the text the engine recognises
MaxOutLen == 3

----------------------------------------------------------------------------
(* Values *)

NULL == <<>>

CString(s) == <<s>>

EmptyMap == [k \in {} |-> ""]

SeqsUpTo(S, n) == UNION {[1..k -> S] : k \in 0..n}

RECURSIVE Perms(_)
Perms(S) ==
    IF S = {} THEN {<<>>}
    ELSE UNION {{<<x>> \o p : p \in Perms(S \ {x})} : x \in S}

NoError == [kind |-> "nil", code |-> 0, key |-> "", value |-> ""]

\* os.Stat's error for a path that does not exist
StatError == [kind |-> "stat", code |-> 0, key |-> "", value |-> ""]

IsDirError == [kind |-> "isdir", code |-> 0, key |-> "", value |-> ""]

InitError(res) == [kind |-> "init", code |-> res, key |-> "", value |-> ""]

BindError(key, value) == [kind |-> "bind", code |-> 0, key |-> key, value |-> value]

\* the process died: the operation never returned
Crash == [kind |-> "crash", code |-> 0, key |-> "", value |-> ""]

\* one C call: the function, the handle, the other arguments, the answer
EngineCall(fn, api, args, res) ==
    [fn |-> fn, api |-> api, args |-> args, res |-> res, returned |-> TRUE]

NoClient ==
    [api |-> 0, Trim |-> FALSE, TessdataPrefix |-> NULL, Languages |-> <<>>,
     ImagePath |-> "", Variables |-> EmptyMap, PageSegMode |-> NULL,
     ConfigFilePath |-> ""]

\* the record of an operation that ran; `again` tells that the operation
\* that ran before it was the same one
Done(op, args, calls, out, err) ==
    [op |-> op, args |-> args, calls |-> calls, out |-> out, err |-> err,
     again |-> (last.op = op)]

----------------------------------------------------------------------------
(* The file system and the native heap *)

\* os.Stat(path): the error, and info.IsDir()
Stat(path) ==
    IF path \in DOMAIN fs /\ fs[path] # "absent"
    THEN [err |-> NoError, isDir |-> fs[path] = "dir"]
    ELSE [err |-> StatError, isDir |-> FALSE]

Freed(h) == h \in DOMAIN heap /\ heap[h] > 0

OpenHandles == {h \in DOMAIN heap : heap[h] = 0}

\* C.Create(): a new handle, never freed yet
Create(hp) == Append(hp, 0)

\* C.Free(h)
Free(hp, h) == [hp EXCEPT ![h] = @ + 1]

\* a C call the process died in
Dying(call) == [call EXCEPT !.returned = FALSE]

----------------------------------------------------------------------------
(* Construction and release *)

NewClientValue(api) ==
    [api |-> api, Trim |-> TRUE, TessdataPrefix |-> NULL, Languages |-> <<>>,
     ImagePath |-> "", Variables |-> EmptyMap, PageSegMode |-> NULL,
     ConfigFilePath |-> ""]

NewClient ==
    /\ ~crashed
    /\ client = NoClient
    /\ Len(heap) < MaxHandles
    /\ LET api == Len(heap) + 1 IN
        /\ heap' = Create(heap)
        /\ client' = NewClientValue(api)
        /\ last' = Done("NewClient", <<>>, <<EngineCall("Create", api, <<>>, 0)>>,
                        <<>>, NoError)
    /\ UNCHANGED <<fs, crashed>>

\* Close() on the caller's Client; `crash` is the outcome of freeing a handle
\* that was freed before (undefined behaviour: abort, or go on)
Close(crash) ==
    /\ ~crashed
    /\ client # NoClient
    /\ heap[client.api] < MaxFrees
    /\ heap' = Free(heap, client.api)
    /\ LET call == EngineCall("Free", client.api, <<>>, 0) IN
        IF Freed(client.api) /\ crash
        THEN /\ crashed' = TRUE
             /\ last' = Done("Close", <<>>, <<Dying(call)>>, <<>>, Crash)
        ELSE /\ crashed' = FALSE
             /\ last' = Done("Close", <<>>, <<call>>, <<>>, NoError)
    /\ UNCHANGED <<client, fs>>

\* Version() without its deferred C.Free
VersionNoFree(version) ==
    /\ ~crashed
    /\ Len(heap) < MaxHandles
    /\ LET api == Len(heap) + 1 IN
        /\ heap' = Create(heap)
        /\ last' = Done("Version", <<>>,
                        <<EngineCall("Create", api, <<>>, 0),
                          EngineCall("Version", api, <<>>, version)>>,
                        version, NoError)
    /\ UNCHANGED <<client, fs, crashed>>

\* Version(): `version` is what the engine answers
Version(version) ==
    /\ ~crashed
    /\ Len(heap) < MaxHandles
    /\ LET api == Len(heap) + 1 IN
        /\ heap' = Free(Create(heap), api)
        /\ last' = Done("Version", <<>>,
                        <<EngineCall("Create", api, <<>>, 0),
                          EngineCall("Version", api, <<>>, version),
                          EngineCall("Free", api, <<>>, 0)>>,
                        version, NoError)
    /\ UNCHANGED <<client, fs, crashed>>

----------------------------------------------------------------------------
(* The builder *)

\* SetImage that forgets the variables set for the image before
SetImageClearsVariables(imagepath) ==
    /\ ~crashed
    /\ client # NoClient
    /\ client' = [client EXCEPT !.ImagePath = imagepath, !.Variables = EmptyMap]
    /\ last' = Done("SetImage", <<imagepath>>, <<>>, <<>>, NoError)
    /\ UNCHANGED <<heap, fs, crashed>>

SetImage(imagepath) ==
    /\ ~crashed
    /\ client # NoClient
    /\ client' = [client EXCEPT !.ImagePath = imagepath]
    /\ last' = Done("SetImage", <<imagepath>>, <<>>, <<>>, NoError)
    /\ UNCHANGED <<heap, fs, crashed>>

SetLanguage(langs) ==
    /\ ~crashed
    /\ client # NoClient
    /\ client' = [client EXCEPT !.Languages = langs]
    /\ last' = Done("SetLanguage", <<langs>>, <<>>, <<>>, NoError)
    /\ UNCHANGED <<heap, fs, crashed>>

\* a store that keeps the value a key already has
MapStoreKeepsFirst(m, key, value) ==
    [k \in DOMAIN m \cup {key} |-> IF k \in DOMAIN m THEN m[k] ELSE value]

\* c.Variables[key] = value
MapStore(m, key, value) ==
    [k \in DOMAIN m \cup {key} |-> IF k = key THEN value ELSE m[k]]

SetVariable(key, value) ==
    /\ ~crashed
    /\ client # NoClient
    /\ client' = [client EXCEPT !.Variables = MapStore(@, key, value)]
    /\ last' = Done("SetVariable", <<key, value>>, <<>>, <<>>, NoError)
    /\ UNCHANGED <<heap, fs, crashed>>

\* SetWhitelist calls SetVariable with this key
WhitelistKey == "tessedit_char_whitelist"

\* SetWhitelist that writes the blacklist variable
SetWhitelistWrongKey(whitelist) ==
    /\ ~crashed
    /\ client # NoClient
    /\ client' = [client EXCEPT !.Variables = MapStore(@, "tessedit_char_blacklist", whitelist)]
    /\ last' = Done("SetWhitelist", <<whitelist>>, <<>>, <<>>, NoError)
    /\ UNCHANGED <<heap, fs, crashed>>

SetWhitelist(whitelist) ==
    /\ ~crashed
    /\ client # NoClient
    /\ client' = [client EXCEPT !.Variables = MapStore(@, WhitelistKey, whitelist)]
    /\ last' = Done("SetWhitelist", <<whitelist>>, <<>>, <<>>, NoError)
    /\ UNCHANGED <<heap, fs, crashed>>

SetPageSegMode(mode) ==
    /\ ~crashed
    /\ client # NoClient
    /\ client' = [client EXCEPT !.PageSegMode = <<mode>>]
    /\ last' = Done("SetPageSegMode", <<mode>>, <<>>, <<>>, NoError)
    /\ UNCHANGED <<heap, fs, crashed>>

\* SetConfigFile's checks without the one for a directory
SetConfigFileErrorNoDirCheck(fpath) == Stat(fpath).err

\* the error SetConfigFile(fpath) returns
SetConfigFileError(fpath) ==
    LET st == Stat(fpath) IN
    IF st.err # NoError THEN st.err
    ELSE IF st.isDir THEN IsDirError
    ELSE NoError

SetConfigFile(fpath) ==
    /\ ~crashed
    /\ client # NoClient
    /\ LET err == SetConfigFileError(fpath) IN
        /\ client' = IF err = NoError
                     THEN [client EXCEPT !.ConfigFilePath = fpath]
                     ELSE client
        /\ last' = Done("SetConfigFile", <<fpath>>, <<>>, <<>>, err)
    /\ UNCHANGED <<heap, fs, crashed>>

\* the caller writes the public field Trim
SetTrim(trim) ==
    /\ ~crashed
    /\ client # NoClient
    /\ client' = [client EXCEPT !.Trim = trim]
    /\ last' = Done("SetTrim", <<trim>>, <<>>, <<>>, NoError)
    /\ UNCHANGED <<heap, fs, crashed>>

\* the environment creates, removes or replaces what is at `path`
FsChange(path, kind) ==
    /\ ~crashed
    /\ path \in DOMAIN fs
    /\ fs[path] # kind
    /\ fs' = [fs EXCEPT ![path] = kind]
    /\ last' = Done("FsChange", <<path, kind>>, <<>>, <<>>, NoError)
    /\ UNCHANGED <<client, heap, crashed>>

----------------------------------------------------------------------------
(* Extraction.  `e` holds what the engine and the Go runtime answer during  *)
(* one call: e.res the result code of C.Init, e.order the order in which    *)
(* the range loop visits c.Variables, e.reject the keys whose binding the   *)
(* engine refuses, e.text what C.UTF8Text or C.HOCRText returns.            *)

\* strings.Join(elems, sep)
RECURSIVE Join(_, _)
Join(elems, sep) ==
    IF elems = <<>> THEN ""
    ELSE IF Len(elems) = 1 THEN elems[1]
    ELSE elems[1] \o sep \o Join(Tail(elems), sep)

RECURSIVE TrimLeft(_, _)
TrimLeft(s, cutset) ==
    IF s # <<>> /\ Head(s) \in cutset THEN TrimLeft(Tail(s), cutset) ELSE s

RECURSIVE TrimRight(_, _)
TrimRight(s, cutset) ==
    IF s # <<>> /\ s[Len(s)] \in cutset
    THEN TrimRight(SubSeq(s, 1, Len(s) - 1), cutset)
    ELSE s

\* a trim that takes spaces off as well, as strings.TrimSpace would
TrimWithSpaces(s, cutset) == TrimRight(TrimLeft(s, cutset \cup {" "}), cutset \cup {" "})

\* strings.Trim(s, cutset): s without its leading and trailing characters
\* that are in cutset
Trim(s, cutset) == TrimRight(TrimLeft(s, cutset), cutset)

\* charLangs without the test for an empty list
charLangsAlways(c) == CString(Join(c.Languages, "+"))

charLangs(c) ==
    IF Len(c.Languages) # 0 THEN CString(Join(c.Languages, "+")) ELSE NULL

\* charConfig that trusts the stored path without looking at the file system
charConfigNoStat(c) ==
    IF c.ConfigFilePath # "" THEN CString(c.ConfigFilePath) ELSE NULL

charConfig(c) ==
    IF Stat(c.ConfigFilePath).err = NoError THEN CString(c.ConfigFilePath) ELSE NULL

\* init that takes only a negative result code for a failure
initOnlyNegative(c, e) ==
    [calls |-> <<EngineCall("Init", c.api, <<NULL, charLangs(c), charConfig(c)>>,
                            e.res)>>,
     err |-> IF e.res < 0 THEN InitError(e.res) ELSE NoError]

\* init that drops the engine's result code
initIgnoresCode(c, e) ==
    [calls |-> <<EngineCall("Init", c.api, <<NULL, charLangs(c), charConfig(c)>>,
                            e.res)>>,
     err |-> NoError]

\* c.init(): the engine calls made and the error returned
init(c, e) ==
    LET langs == charLangs(c)
        config == charConfig(c)
        res == e.res
    IN [calls |-> <<EngineCall("Init", c.api, <<NULL, langs, config>>, res)>>,
        err |-> IF res # 0 THEN InitError(res) ELSE NoError]

\* c.bind(key, value): the engine call; its res is the boolean returned
bind(c, key, value, e) ==
    EngineCall("SetVariable", c.api, <<CString(key), CString(value)>>,
               key \notin e.reject)

\* a range loop that goes on binding after a refusal and reports the first
RECURSIVE bindAllContinues(_, _, _)
bindAllContinues(c, order, e) ==
    IF order = <<>> THEN [calls |-> <<>>, err |-> NoError]
    ELSE LET key == Head(order)
             value == c.Variables[key]
             call == bind(c, key, value, e)
             rest == bindAllContinues(c, Tail(order), e)
         IN [calls |-> <<call>> \o rest.calls,
             err |-> IF ~call.res THEN BindError(key, value) ELSE rest.err]

\* the range loop of prepare over c.Variables, visiting the keys in `order`
RECURSIVE bindAll(_, _, _)
bindAll(c, order, e) ==
    IF order = <<>> THEN [calls |-> <<>>, err |-> NoError]
    ELSE LET key == Head(order)
             value == c.Variables[key]
             call == bind(c, key, value, e)
         IN IF ~call.res
            THEN [calls |-> <<call>>, err |-> BindError(key, value)]
            ELSE LET rest == bindAll(c, Tail(order), e)
                 IN [calls |-> <<call>> \o rest.calls, err |-> rest.err]

\* prepare that sets the image only when a path was given
prepareSkipsEmptyImage(c, e) ==
    LET image == IF c.ImagePath # ""
                 THEN <<EngineCall("SetImage", c.api, <<CString(c.ImagePath)>>, 0)>>
                 ELSE <<>>
        binds == bindAll(c, e.order, e)
        mode == IF c.PageSegMode # NULL
                THEN <<EngineCall("SetPageSegMode", c.api, <<c.PageSegMode[1]>>, 0)>>
                ELSE <<>>
    IN IF binds.err # NoError
       THEN [calls |-> image \o binds.calls, err |-> binds.err]
       ELSE [calls |-> image \o binds.calls \o mode, err |-> NoError]

\* c.prepare(): the engine calls made and the error returned
prepare(c, e) ==
    LET image == EngineCall("SetImage", c.api, <<CString(c.ImagePath)>>, 0)
        binds == bindAll(c, e.order, e)
        mode == IF c.PageSegMode # NULL
                THEN <<EngineCall("SetPageSegMode", c.api, <<c.PageSegMode[1]>>, 0)>>
                ELSE <<>>
    IN IF binds.err # NoError
       THEN [calls |-> <<image>> \o binds.calls, err |-> binds.err]
       ELSE [calls |-> <<image>> \o binds.calls \o mode, err |-> NoError]

\* c.Text() working from a copy of the configuration made at construction
TextResultStale(c, e) ==
    LET d == NewClientValue(c.api)
        i == init(d, e)
    IN
    IF i.err # NoError THEN [calls |-> i.calls, out |-> <<>>, err |-> i.err]
    ELSE LET p == prepare(d, [e EXCEPT !.order = <<>>]) IN
         [calls |-> i.calls \o p.calls
                     \o <<EngineCall("UTF8Text", c.api, <<>>, e.text)>>,
          out |-> IF c.Trim THEN Trim(e.text, {"\n"}) ELSE e.text,
          err |-> NoError]

\* c.Text() on a Client that remembers a successful Init and skips it
TextResultCached(c, e) ==
    LET i == IF last.op = "Text" /\ last.calls[1].res = 0
             THEN [calls |-> <<>>, err |-> NoError]
             ELSE init(c, e)
    IN
    IF i.err # NoError THEN [calls |-> i.calls, out |-> <<>>, err |-> i.err]
    ELSE LET p == prepare(c, e) IN
         IF p.err # NoError
         THEN [calls |-> i.calls \o p.calls, out |-> <<>>, err |-> p.err]
         ELSE [calls |-> i.calls \o p.calls
                           \o <<EngineCall("UTF8Text", c.api, <<>>, e.text)>>,
               out |-> IF c.Trim THEN Trim(e.text, {"\n"}) ELSE e.text,
               err |-> NoError]

\* c.Text(): the engine calls made, and the (out, err) returned
TextResult(c, e) ==
    LET i == init(c, e) IN
    IF i.err # NoError THEN [calls |-> i.calls, out |-> <<>>, err |-> i.err]
    ELSE LET p == prepare(c, e) IN
         IF p.err # NoError
         THEN [calls |-> i.calls \o p.calls, out |-> <<>>, err |-> p.err]
         ELSE [calls |-> i.calls \o p.calls
                           \o <<EngineCall("UTF8Text", c.api, <<>>, e.text)>>,
               out |-> IF c.Trim THEN Trim(e.text, {"\n"}) ELSE e.text,
               err |-> NoError]

\* c.HTML() that queries the output whatever prepare returned
HTMLResultIgnoresPrepare(c, e) ==
    LET i == init(c, e) IN
    IF i.err # NoError THEN [calls |-> i.calls, out |-> <<>>, err |-> i.err]
    ELSE LET p == prepare(c, e) IN
         [calls |-> i.calls \o p.calls
                     \o <<EngineCall("HOCRText", c.api, <<>>, e.text)>>,
          out |-> e.text,
          err |-> p.err]

\* c.HTML(): the engine calls made, and the (out, err) returned
HTMLResult(c, e) ==
    LET i == init(c, e) IN
    IF i.err # NoError THEN [calls |-> i.calls, out |-> <<>>, err |-> i.err]
    ELSE LET p == prepare(c, e) IN
         IF p.err # NoError
         THEN [calls |-> i.calls \o p.calls, out |-> <<>>, err |-> p.err]
         ELSE [calls |-> i.calls \o p.calls
                           \o <<EngineCall("HOCRText", c.api, <<>>, e.text)>>,
               out |-> e.text,
               err |-> NoError]

\* what the engine and the runtime may answer while c is extracted from
Answers(c, codes, texts) ==
    [res : codes, order : Perms(DOMAIN c.Variables),
     reject : SUBSET (DOMAIN c.Variables), text : texts]

\* an extraction that frees the handle when it fails
ExtractedFreesOnError(op, r, crash) ==
    /\ IF Freed(client.api) /\ crash
       THEN /\ crashed' = TRUE
            /\ last' = Done(op, <<>>, <<Dying(r.calls[1])>>, <<>>, Crash)
       ELSE /\ crashed' = FALSE
            /\ last' = Done(op, <<>>, r.calls, r.out, r.err)
    /\ heap' = IF r.err # NoError /\ heap[client.api] < MaxFrees
               THEN Free(heap, client.api) ELSE heap
    /\ UNCHANGED <<client, fs>>

\* an extraction that drops the variables once it has used them
ExtractedClearsVariables(op, r, crash) ==
    /\ IF Freed(client.api) /\ crash
       THEN /\ crashed' = TRUE
            /\ last' = Done(op, <<>>, <<Dying(r.calls[1])>>, <<>>, Crash)
       ELSE /\ crashed' = FALSE
            /\ last' = Done(op, <<>>, r.calls, r.out, r.err)
    /\ client' = [client EXCEPT !.Variables = EmptyMap]
    /\ UNCHANGED <<heap, fs>>

\* an extraction r ends: on a freed handle the process may die in the first
\* C call instead (`crash`)
Extracted(op, r, crash) ==
    /\ IF Freed(client.api) /\ crash
       THEN /\ crashed' = TRUE
            /\ last' = Done(op, <<>>, <<Dying(r.calls[1])>>, <<>>, Crash)
       ELSE /\ crashed' = FALSE
            /\ last' = Done(op, <<>>, r.calls, r.out, r.err)
    /\ UNCHANGED <<client, heap, fs>>

Text(e, crash) ==
    /\ ~crashed
    /\ client # NoClient
    /\ crash => Freed(client.api)
    /\ Extracted("Text", TextResult(client, e), crash)

HTML(e, crash) ==
    /\ ~crashed
    /\ client # NoClient
    /\ crash => Freed(client.api)
    /\ Extracted("HTML", HTMLResult(client, e), crash)

----------------------------------------------------------------------------
(* The inputs the operations are called with *)

Chars == {"\n", " ", "H"}

Texts == SeqsUpTo(Chars, MaxOutLen)

InitCodes == {0, -1, 3}

Versions == {"4.1.1"}

Languages == {"eng", "fra"}

LanguageLists == SeqsUpTo(Languages, MaxLangs)

Keys == {"k", WhitelistKey}

Values == {"v1", "v2"}

Paths == {"a.cfg", "b.cfg"}

Kinds == {"absent", "file", "dir"}

\* PSM_AUTO, and a number that is no page segmentation mode
Modes == {3, 99}

----------------------------------------------------------------------------
(* The life of one Client: creation, configuration, extraction, release    *)
(* and use after release.                                                  *)

Init ==
    /\ client = NoClient
    /\ heap = <<>>
    /\ fs = [p \in Paths |-> IF p = "b.cfg" THEN "file" ELSE "absent"]
    /\ last = [op |-> "none", args |-> <<>>, calls |-> <<>>, out |-> <<>>,
               err |-> NoError, again |-> FALSE]
    /\ crashed = FALSE

Next ==
    \/ NewClient
    \/ \E crash \in BOOLEAN : Close(crash)
    \/ \E version \in Versions : Version(version)
    \/ \E imagepath \in {"a.png"} : SetImage(imagepath)
    \/ \E langs \in {<<"eng">>} : SetLanguage(langs)
    \/ \E value \in {"v1"} : SetVariable("k", value)
    \/ \E whitelist \in {"v1"} : SetWhitelist(whitelist)
    \/ \E mode \in {3} : SetPageSegMode(mode)
    \/ \E fpath \in {"a.cfg"} : SetConfigFile(fpath)
    \/ \E trim \in {FALSE} : SetTrim(trim)
    \/ \E kind \in {"file", "absent"} : FsChange("a.cfg", kind)
    \/ \E e \in Answers(client, {0, -1}, {<<"H">>}), crash \in BOOLEAN : Text(e, crash)
    \/ \E e \in Answers(client, {0, -1}, {<<"H">>}), crash \in BOOLEAN : HTML(e, crash)

Spec == Init /\ [][Next]_vars

----------------------------------------------------------------------------
(* Release *)

\* the operations of a Client that could report an error or call the engine
ClientOps ==
    {"SetImage", "SetLanguage", "SetVariable", "SetWhitelist", "SetPageSegMode",
     "SetConfigFile", "Text", "HTML", "Close"}

CallsOn(calls, h) == {i \in DOMAIN calls : calls[i].api = h}

\* C1: once Close has run on the Client, every later operation on it (a
\* setter, Text, HTML, a second Close) returns the UseAfterRelease error and
\* makes no engine call on the released handle.
C1_UseAfterReleaseReported ==
    [][(client # NoClient /\ Freed(client.api) /\ last'.op \in ClientOps)
        => /\ last'.err.kind = "UseAfterRelease"
           /\ CallsOn(last'.calls, client.api) = {}]_vars

\* C2: in every reachable state each native handle C.Create handed out has
\* been freed at most once, whatever the operations called, a repeated Close
\* included.
C2_FreedAtMostOnce == \A h \in DOMAIN heap : heap[h] <= 1

\* C10: Version can be called in any state (before any Client exists, with
\* an open Client, after the Client was released); a call creates exactly one
\* handle, a new one, frees exactly that handle once, as its last engine
\* call, and leaves the set of open handles and the Client as they were.
C10_VersionIsSelfContained ==
    /\ [](~crashed /\ Len(heap) < MaxHandles
            => ENABLED (\E version \in Versions : Version(version)))
    /\ [][last'.op = "Version"
            => LET calls == last'.calls
                   made == {i \in DOMAIN calls : calls[i].fn = "Create"}
                   freed == {i \in DOMAIN calls : calls[i].fn = "Free"}
               IN /\ Cardinality(made) = 1
                  /\ Cardinality(freed) = 1
                  /\ \A i \in made : calls[i].api \notin DOMAIN heap
                  /\ \A i \in made, j \in DOMAIN calls : calls[j].api = calls[i].api
                  /\ freed = {Len(calls)}
                  /\ \A i \in made : heap'[calls[i].api] = 1
                  /\ \A h \in DOMAIN heap : heap'[h] = heap[h]
                  /\ DOMAIN heap' = DOMAIN heap \cup {calls[i].api : i \in made}
                  /\ last'.err = NoError
                  /\ OpenHandles' = OpenHandles
                  /\ client' = client]_vars

\* Version ran after the Client was released
C10_Witness == last.op = "Version" /\ client # NoClient /\ Freed(client.api)

----------------------------------------------------------------------------
(* Configuration and extraction on an open Client: the builder calls with  *)
(* all their inputs, and every answer of the engine.                       *)

\* the state after NewClient()
InitOpen ==
    /\ client = NewClientValue(1)
    /\ heap = <<0>>
    /\ fs = [p \in Paths |-> IF p = "b.cfg" THEN "file" ELSE "absent"]
    /\ last = [op |-> "NewClient", args |-> <<>>,
               calls |-> <<EngineCall("Create", 1, <<>>, 0)>>, out |-> <<>>,
               err |-> NoError, again |-> FALSE]
    /\ crashed = FALSE

NextExtract ==
    \/ \E imagepath \in {"", "a.png"} : SetImage(imagepath)
    \/ \E langs \in LanguageLists : SetLanguage(langs)
    \/ \E key \in Keys, value \in Values : SetVariable(key, value)
    \/ \E whitelist \in Values : SetWhitelist(whitelist)
    \/ \E mode \in Modes : SetPageSegMode(mode)
    \/ \E e \in Answers(client, InitCodes, {<<"H">>, <<"\n">>}) : Text(e, FALSE)
    \/ \E e \in Answers(client, InitCodes, {<<"H">>, <<"\n">>}) : HTML(e, FALSE)

SpecExtract == InitOpen /\ [][NextExtract]_vars

\* where an engine call belongs in an extraction
Phase(fn) ==
    CASE fn = "Init" -> 1
      [] fn = "SetImage" -> 2
      [] fn = "SetVariable" -> 3
      [] fn = "SetPageSegMode" -> 4
      [] fn \in {"UTF8Text", "HOCRText"} -> 5
      [] OTHER -> 0

Fns(calls, fns) == {i \in DOMAIN calls : calls[i].fn \in fns}

OutputFns == {"UTF8Text", "HOCRText"}

PrepareFns == {"SetImage", "SetVariable", "SetPageSegMode"}

\* C3: in every Text or HTML call the engine calls come in the order Init,
\* then SetImage, the variable bindings and the page segmentation mode, then
\* the output query; nothing is prepared unless Init answered 0, and the
\* output query is made only if Init answered 0 and prepare then succeeded
\* (the image was set, every variable of the Client was bound and accepted,
\* and the page segmentation mode, when set, was written).
C3_InitPrepareQuery ==
    last.op \in {"Text", "HTML"} =>
        LET calls == last.calls IN
        /\ Len(calls) >= 1
        /\ \A i \in DOMAIN calls : Phase(calls[i].fn) >= 1
        /\ \A i, j \in DOMAIN calls : i < j =>
              /\ Phase(calls[i].fn) <= Phase(calls[j].fn)
              /\ Phase(calls[i].fn) = Phase(calls[j].fn) => calls[i].fn = "SetVariable"
        /\ calls[1].fn = "Init"
        /\ Fns(calls, PrepareFns \cup OutputFns) # {} => calls[1].res = 0
        /\ Fns(calls, OutputFns) # {} =>
              /\ Fns(calls, OutputFns) = {Len(calls)}
              /\ calls[Len(calls)].fn = (IF last.op = "Text" THEN "UTF8Text" ELSE "HOCRText")
              /\ Cardinality(Fns(calls, {"SetImage"})) = 1
              /\ \A i \in Fns(calls, {"SetVariable"}) : calls[i].res
              /\ {calls[i].args[1][1] : i \in Fns(calls, {"SetVariable"})}
                    = DOMAIN client.Variables
              /\ (Fns(calls, {"SetPageSegMode"}) # {}) = (client.PageSegMode # NULL)

\* an extraction queried the output after binding two variables and writing
\* the page segmentation mode
C3_Witness ==
    /\ last.op = "HTML"
    /\ Fns(last.calls, OutputFns) # {}
    /\ Cardinality(Fns(last.calls, {"SetVariable"})) = 2
    /\ Fns(last.calls, {"SetPageSegMode"}) # {}

\* C4: when Init fails in Text or HTML its error is returned and nothing
\* else is called (no prepare, no output query); when Init succeeds and a
\* binding is refused in prepare, that error is returned and the output is
\* not queried.  In both cases the string returned is empty.
C4_FirstErrorPropagates ==
    last.op \in {"Text", "HTML"} =>
        LET calls == last.calls
            refused == {i \in Fns(calls, {"SetVariable"}) : ~calls[i].res}
        IN /\ calls[1].res # 0 =>
                /\ last.err = InitError(calls[1].res)
                /\ Len(calls) = 1
                /\ last.out = <<>>
           /\ (calls[1].res = 0 /\ refused # {}) =>
                /\ \E i \in refused :
                      last.err = BindError(calls[i].args[1][1], calls[i].args[2][1])
                /\ Fns(calls, OutputFns) = {}
                /\ last.out = <<>>
           /\ (last.err # NoError) => (calls[1].res # 0 \/ refused # {})

\* Init failed with code 3 in Text
C4_WitnessInit == last.op = "Text" /\ last.err = InitError(3)

Bindings(calls) ==
    {<<calls[i].args[1][1], calls[i].args[2][1]>> : i \in Fns(calls, {"SetVariable"})}

\* C6: SetVariable(key, value) leaves the map with key bound to value and
\* every other key as it was (SetWhitelist does so for its key, and no other
\* operation changes the map), so the map holds one binding per key ever set,
\* with the value of the latest call; the next prepare binds each key at most
\* once, to the value the map holds.
C6_LastWriteWins ==
    [][/\ last'.op = "SetVariable" =>
            /\ DOMAIN client'.Variables = DOMAIN client.Variables \cup {last'.args[1]}
            /\ client'.Variables[last'.args[1]] = last'.args[2]
            /\ \A k \in DOMAIN client.Variables \ {last'.args[1]} :
                  client'.Variables[k] = client.Variables[k]
       /\ last'.op = "SetWhitelist" =>
            /\ DOMAIN client'.Variables = DOMAIN client.Variables \cup {WhitelistKey}
            /\ client'.Variables[WhitelistKey] = last'.args[1]
            /\ \A k \in DOMAIN client.Variables \ {WhitelistKey} :
                  client'.Variables[k] = client.Variables[k]
       /\ last'.op \notin {"SetVariable", "SetWhitelist"} =>
            client'.Variables = client.Variables
       /\ last'.op \in {"Text", "HTML"} =>
            LET calls == last'.calls IN
            /\ \A i, j \in Fns(calls, {"SetVariable"}) :
                  calls[i].args[1] = calls[j].args[1] => i = j
            /\ \A b \in Bindings(calls) :
                  b[1] \in DOMAIN client.Variables /\ b[2] = client.Variables[b[1]]
      ]_vars

\* SetVariable("k", "v2") ran again and overwrote a binding of k
C6_Witness ==
    /\ last.op = "SetVariable"
    /\ last.again
    /\ last.args = <<"k", "v2">>
    /\ client.Variables["k"] = "v2"
    /\ WhitelistKey \in DOMAIN client.Variables

\* the elements of a non-empty list with "+" between them, built from the end
RECURSIVE PlusJoined(_)
PlusJoined(l) ==
    IF Len(l) = 1 THEN l[1]
    ELSE PlusJoined(SubSeq(l, 1, Len(l) - 1)) \o "+" \o l[Len(l)]

\* C7: the language identifier C.Init receives is the Client's language list
\* joined in order with "+" when the list is not empty (<<"eng", "fra">> gives
\* "eng+fra"), and is the nil pointer exactly when the list is empty;
\* SetLanguage replaces the whole list and nothing else changes it.
C7_LanguageIdentifier ==
    [][/\ last'.op = "SetLanguage" => client'.Languages = last'.args[1]
       /\ last'.op # "SetLanguage" => client'.Languages = client.Languages
       /\ last'.op \in {"Text", "HTML"} =>
            LET ident == last'.calls[1].args[2] IN
            /\ (ident = NULL) = (client.Languages = <<>>)
            /\ client.Languages # <<>> => ident = <<PlusJoined(client.Languages)>>
            /\ client.Languages = <<"eng", "fra">> => ident = <<"eng+fra">>
      ]_vars

\* SetLanguage ran twice and then Init received "fra+eng"
C7_Witness ==
    /\ last.op = "Text"
    /\ last.calls[1].args[2] = <<"fra+eng">>

\* the engine answers as a function of its arguments: two calls of the same
\* function with the same arguments got the same answer
Agree(a, b) ==
    \A i \in DOMAIN a, j \in DOMAIN b :
        (a[i].fn = b[j].fn /\ a[i].args = b[j].args) => a[i].res = b[j].res

Refused(calls) ==
    {<<calls[i].args[1][1], calls[i].args[2][1]>> :
        i \in {j \in Fns(calls, {"SetVariable"}) : ~calls[j].res}}

CallsMade(calls) == {<<calls[i].fn, calls[i].args>> : i \in DOMAIN calls}

\* C9 as claimed (its results): Text called again right after Text, nothing
\* changed in between and the engine answering as a function of its
\* arguments, runs Init again and returns the same string and the same error.
C9_EqualResults ==
    [][(last.op = "Text" /\ last'.op = "Text" /\ last'.again
            /\ Agree(last.calls, last'.calls))
        => /\ last'.calls[1].fn = "Init"
           /\ last'.out = last.out
           /\ last'.err = last.err]_vars

\* C9 as amended: the second Text runs Init again, with the arguments of the
\* first; when Init succeeds it runs prepare again: SetImage with the same
\* argument, bindings that are bindings of the Client (all of them, and the
\* same page segmentation mode, when none is refused).  The strings returned
\* are equal and the errors are of the same kind; the errors are equal unless
\* the engine refuses two different variables of the Client, of which each
\* call reports the one the map iteration reached first.
C9_RepeatedText ==
    [][(last.op = "Text" /\ last'.op = "Text" /\ last'.again
            /\ Agree(last.calls, last'.calls))
        => LET a == last.calls
               b == last'.calls
           IN /\ b[1].fn = "Init" /\ a[1].fn = "Init"
              /\ b[1].args = a[1].args
              /\ b[1].res = 0 =>
                    /\ Len(a) >= 2 /\ Len(b) >= 2
                    /\ a[2].fn = "SetImage" /\ b[2].fn = "SetImage"
                    /\ b[2].args = a[2].args
              /\ \A bd \in Bindings(a) \cup Bindings(b) :
                    bd[1] \in DOMAIN client.Variables /\ bd[2] = client.Variables[bd[1]]
              /\ (Refused(a) = {} /\ Refused(b) = {}) => CallsMade(b) = CallsMade(a)
              /\ last'.out = last.out
              /\ last'.err.kind = last.err.kind
              /\ last'.err # last.err =>
                    /\ last.err.kind = "bind"
                    /\ last.err.key # last'.err.key
                    /\ <<last.err.key, last.err.value>> \in Refused(a)
                    /\ <<last'.err.key, last'.err.value>> \in Refused(b)
      ]_vars

\* Text ran again right after Text and both queried the output
C9_Witness ==
    /\ last.op = "Text"
    /\ last.again
    /\ Fns(last.calls, OutputFns) # {}
    /\ Cardinality(Bindings(last.calls)) = 2

----------------------------------------------------------------------------
(* The parameter file: SetConfigFile and extraction while the files come   *)
(* and go.                                                                 *)

NextFile ==
    \/ \E fpath \in Paths \cup {""} : SetConfigFile(fpath)
    \/ \E path \in Paths, kind \in Kinds : FsChange(path, kind)
    \/ \E langs \in {<<"eng">>} : SetLanguage(langs)
    \/ \E value \in {"v1"} : SetVariable("k", value)
    \/ \E e \in Answers(client, {0, -1}, {<<"H">>}) : Text(e, FALSE)
    \/ \E e \in Answers(client, {0, -1}, {<<"H">>}) : HTML(e, FALSE)

SpecFile == InitOpen /\ [][NextFile]_vars

\* C5: SetConfigFile with a path that does not exist or is a directory
\* returns an error and leaves the stored path and every other field of the
\* Client as they were; with a path to an existing file that is no directory
\* it returns no error and the stored path is the argument.
C5_SetConfigFile ==
    [][last'.op = "SetConfigFile" =>
        LET fpath == last'.args[1]
            isFile == fpath \in DOMAIN fs /\ fs[fpath] = "file"
        IN /\ ~isFile => (last'.err # NoError /\ client' = client)
           /\ isFile => (last'.err = NoError /\ client'.ConfigFilePath = fpath)
      ]_vars

\* SetConfigFile was given a directory while another path was stored
C5_Witness ==
    /\ last.op = "SetConfigFile"
    /\ last.args = <<"a.cfg">>
    /\ fs["a.cfg"] = "dir"
    /\ last.err # NoError
    /\ client.ConfigFilePath = "b.cfg"
    /\ client.Languages # <<>>

----------------------------------------------------------------------------
(* Trimming: Text and HTML over every text the engine may recognise.       *)

NextTrim ==
    \/ \E trim \in BOOLEAN : SetTrim(trim)
    \/ \E value \in {"v1"} : SetVariable("k", value)
    \/ \E e \in Answers(client, {0, -1}, Texts) : Text(e, FALSE)
    \/ \E e \in Answers(client, {0, -1}, Texts) : HTML(e, FALSE)

SpecTrim == InitOpen /\ [][NextTrim]_vars

\* the positions of s that hold something else than a newline
Inner(s) == {i \in DOMAIN s : s[i] # "\n"}

Least(S) == CHOOSE x \in S : \A y \in S : x <= y

Greatest(S) == CHOOSE x \in S : \A y \in S : x >= y

\* s from its first to its last character that is no newline
WithoutOuterNewlines(s) ==
    IF Inner(s) = {} THEN <<>> ELSE SubSeq(s, Least(Inner(s)), Greatest(Inner(s)))

\* C8: Text returns the engine's text without its leading and trailing
\* newlines, and otherwise unchanged, when Trim is true ("\nH\n" gives "H",
\* " H " stays " H "), and returns it unchanged when Trim is false; HTML
\* returns the engine's markup unchanged whatever Trim is.
C8_TrimOnlyNewlines ==
    (last.op \in {"Text", "HTML"} /\ Fns(last.calls, OutputFns) # {}) =>
        LET raw == last.calls[Len(last.calls)].res IN
        /\ (last.op = "Text" /\ client.Trim) =>
              /\ last.out = WithoutOuterNewlines(raw)
              /\ raw = <<"\n", "H", "\n">> => last.out = <<"H">>
              /\ raw = <<" ", "H", " ">> => last.out = raw
        /\ (last.op = "Text" /\ ~client.Trim) => last.out = raw
        /\ last.op = "HTML" => last.out = raw

\* Text trimmed "\nH\n" to "H"
C8_Witness ==
    /\ last.op = "Text"
    /\ client.Trim
    /\ Fns(last.calls, OutputFns) # {}
    /\ last.calls[Len(last.calls)].res = <<"\n", "H", "\n">>
    /\ last.out = <<"H">>

----------------------------------------------------------------------------
(* The parameter file at the time init uses it *)

Exists(path) == path \in DOMAIN fs /\ fs[path] # "absent"

\* C11: when the stored parameter-file path does not exist at the time init
\* runs (never set, or removed after a successful SetConfigFile), init passes
\* the nil pointer as parameter file and fails only if C.Init answers
\* non-zero; when the path exists at that time, init passes the stored path.
C11_LazyConfigCheck ==
    last.op \in {"Text", "HTML"} =>
        LET config == last.calls[1].args[3] IN
        /\ ~Exists(client.ConfigFilePath) => config = NULL
        /\ Exists(client.ConfigFilePath) => config = <<client.ConfigFilePath>>
        /\ (last.err.kind = "init") = (last.calls[1].res # 0)

\* the file was removed after SetConfigFile stored its path, and Text
\* succeeded without a parameter file
C11_Witness ==
    /\ last.op = "Text"
    /\ client.ConfigFilePath = "a.cfg"
    /\ fs["a.cfg"] = "absent"
    /\ last.calls[1].args[3] = NULL
    /\ last.err = NoError

\* C12: whenever init passes a parameter-file path to C.Init, the path is an
\* existing file that is no directory at that time, whatever SetConfigFile
\* calls, file-system changes and extractions came before.
C12_ConfigIsFileWhenUsed ==
    last.op \in {"Text", "HTML"} =>
        LET config == last.calls[1].args[3] IN
        config # NULL => (config[1] \in DOMAIN fs /\ fs[config[1]] = "file")

----------------------------------------------------------------------------
(* init and prepare, call by call *)

RefusedCalls(calls) == {i \in Fns(calls, {"SetVariable"}) : ~calls[i].res}

\* C13: init makes exactly one C.Init call, with the nil pointer as data
\* directory; it returns the error carrying the engine's result code when
\* that code is not zero, and no initialization error when the code is zero.
C13_InitErrorIffNonZero ==
    last.op \in {"Text", "HTML"} =>
        LET calls == last.calls IN
        /\ Fns(calls, {"Init"}) = {1}
        /\ calls[1].args[1] = NULL
        /\ calls[1].res # 0 => last.err = InitError(calls[1].res)
        /\ calls[1].res = 0 => last.err.kind # "init"

\* C.Init answered the positive code 3 and HTML returned the error carrying 3
C13_Witness ==
    /\ last.op = "HTML"
    /\ last.calls[1].res = 3
    /\ last.err = InitError(3)

\* C14: prepare returns the binding error exactly when the engine refuses a
\* binding it attempts; the error names the refused pair, which is a pair of
\* c.Variables; the refusal is the last engine call of prepare (no further
\* variable is bound, the page segmentation mode is not written).  When the
\* engine accepts every binding, every entry of c.Variables was bound exactly
\* once.
C14_BindErrorIffRefused ==
    (last.op \in {"Text", "HTML"} /\ last.calls[1].res = 0) =>
        LET calls == last.calls
            binds == Fns(calls, {"SetVariable"})
            refused == RefusedCalls(calls)
        IN /\ (last.err.kind = "bind") = (refused # {})
           /\ refused # {} =>
                /\ refused = {Len(calls)}
                /\ Fns(calls, {"SetPageSegMode"}) = {}
                /\ LET key == calls[Len(calls)].args[1][1]
                       value == calls[Len(calls)].args[2][1]
                   IN /\ last.err = BindError(key, value)
                      /\ key \in DOMAIN client.Variables
                      /\ client.Variables[key] = value
           /\ refused = {} =>
                /\ last.err = NoError
                /\ Cardinality(binds) = Cardinality(DOMAIN client.Variables)
                /\ \A k \in DOMAIN client.Variables :
                      Cardinality({i \in binds :
                          calls[i].args = <<<<k>>, <<client.Variables[k]>>>>}) = 1

\* the engine accepted one binding and refused the next, with a page
\* segmentation mode set
C14_Witness ==
    /\ last.op = "Text"
    /\ last.err.kind = "bind"
    /\ Cardinality(Fns(last.calls, {"SetVariable"})) = 2
    /\ client.PageSegMode # NULL

\* C15: in every prepare the image path is written first, once and whatever
\* it is (the empty path too), with the value of c.ImagePath; the page
\* segmentation mode is written exactly once, after every binding succeeded,
\* when it is set, with the stored number (99, no mode of the engine, is
\* passed as it is), and is not written when it was never set.
C15_ImageFirstModeLast ==
    last.op \in {"Text", "HTML"} =>
        LET calls == last.calls
            binds == Fns(calls, {"SetVariable"})
            modes == Fns(calls, {"SetPageSegMode"})
        IN /\ calls[1].res # 0 => Fns(calls, PrepareFns) = {}
           /\ calls[1].res = 0 =>
                /\ Fns(calls, {"SetImage"}) = {2}
                /\ calls[2].args = <<<<client.ImagePath>>>>
           /\ client.PageSegMode = NULL => modes = {}
           /\ RefusedCalls(calls) # {} => modes = {}
           /\ (calls[1].res = 0 /\ RefusedCalls(calls) = {} /\ client.PageSegMode # NULL) =>
                /\ Cardinality(modes) = 1
                /\ Cardinality(binds) = Cardinality(DOMAIN client.Variables)
                /\ \A i \in modes :
                      /\ calls[i].args = <<client.PageSegMode[1]>>
                      /\ \A j \in binds : j < i

\* the empty image path and the number 99 were written to the engine
C15_Witness ==
    /\ last.op = "Text"
    /\ client.ImagePath = ""
    /\ client.PageSegMode = <<99>>
    /\ Cardinality(Fns(last.calls, {"SetVariable"})) = 2
    /\ \E i \in Fns(last.calls, {"SetPageSegMode"}) : last.calls[i].args = <<99>>

----------------------------------------------------------------------------
(* Extraction reads the configuration, and reads it anew every time *)

\* C16: Text and HTML on a Client that was not released only read the
\* configuration: whether they succeed or fail, ImagePath, Languages,
\* Variables, PageSegMode, ConfigFilePath and Trim are after the call what
\* they were before it.
C16_ExtractionReadsOnly ==
    [][(last'.op \in {"Text", "HTML"} /\ ~Freed(client.api)) =>
        /\ client'.ImagePath = client.ImagePath
        /\ client'.Languages = client.Languages
        /\ client'.Variables = client.Variables
        /\ client'.PageSegMode = client.PageSegMode
        /\ client'.ConfigFilePath = client.ConfigFilePath
        /\ client'.Trim = client.Trim
      ]_vars

\* HTML failed on a refused binding with every field of the Client set
C16_Witness ==
    /\ last.op = "HTML"
    /\ last.err.kind = "bind"
    /\ ~Freed(client.api)
    /\ client.ImagePath = "a.png"
    /\ client.Languages = <<"eng">>
    /\ DOMAIN client.Variables = Keys
    /\ client.PageSegMode = <<3>>
    /\ client.ConfigFilePath = "a.cfg"
    /\ ~client.Trim

\* C17: every extraction on a Client that was not released works from the
\* configuration as it is when it is called, whatever was set or extracted
\* before and however an earlier extraction ended: C.Init receives the
\* language identifier of c.Languages and the stored parameter file if it
\* exists, C.SetImage receives c.ImagePath, the bindings made are bindings of
\* c.Variables (all of them when none is refused), and the page segmentation
\* mode written is the stored one.
C17_UsesCurrentConfiguration ==
    (last.op \in {"Text", "HTML"} /\ ~Freed(client.api)) =>
        LET calls == last.calls
            current == {<<k, client.Variables[k]>> : k \in DOMAIN client.Variables}
            modes == {calls[i].args : i \in Fns(calls, {"SetPageSegMode"})}
        IN /\ calls[1].args =
                <<NULL,
                  IF client.Languages = <<>> THEN NULL
                  ELSE <<PlusJoined(client.Languages)>>,
                  IF Exists(client.ConfigFilePath) THEN <<client.ConfigFilePath>>
                  ELSE NULL>>
           /\ calls[1].res = 0 => calls[2].args = <<<<client.ImagePath>>>>
           /\ Bindings(calls) \subseteq current
           /\ (calls[1].res = 0 /\ RefusedCalls(calls) = {}) =>
                /\ Bindings(calls) = current
                /\ modes = (IF client.PageSegMode = NULL THEN {}
                            ELSE {<<client.PageSegMode[1]>>})

\* Text ran with a configuration in which every field had been set
C17_Witness ==
    /\ last.op = "Text"
    /\ ~Freed(client.api)
    /\ last.calls[1].args = <<NULL, <<"eng">>, <<"a.cfg">>>>
    /\ last.err = NoError
    /\ last.calls[2].args = <<<<"a.png">>>>
    /\ Cardinality(Bindings(last.calls)) = 2
    /\ Fns(last.calls, {"SetPageSegMode"}) # {}

\* C18: SetWhitelist(chars) leaves the Client in the state that
\* SetVariable("tessedit_char_whitelist", chars) leaves it in: that key is
\* bound to chars, whatever it was bound to, and every other binding and
\* field is as it was.
C18_WhitelistIsSetVariable ==
    [][last'.op = "SetWhitelist" =>
        LET chars == last'.args[1] IN
        /\ client' = [client EXCEPT
                        !.Variables = MapStore(@, "tessedit_char_whitelist", chars)]
        /\ DOMAIN client'.Variables
              = DOMAIN client.Variables \cup {"tessedit_char_whitelist"}
        /\ client'.Variables["tessedit_char_whitelist"] = chars
        /\ \A k \in DOMAIN client.Variables \ {"tessedit_char_whitelist"} :
              client'.Variables[k] = client.Variables[k]
        /\ last'.calls = <<>>
      ]_vars

\* SetWhitelist ran again and overwrote the whitelist, next to a binding of k
C18_Witness ==
    /\ last.op = "SetWhitelist"
    /\ last.again
    /\ last.args = <<"v2">>
    /\ client.Variables = [k \in Keys |-> "v2"]

----------------------------------------------------------------------------
(* The handle of a Client, and the frame of the builder *)

\* C19: the handle of a Client goes from open to released only in Close: no
\* setter and no extraction, successful or failed, frees or replaces it, so
\* a Client on which Close never ran still holds the handle NewClient
\* created, unfreed.
C19_OnlyCloseReleases ==
    [][/\ (client # NoClient /\ last'.op # "Close") =>
            /\ client'.api = client.api
            /\ heap'[client.api] = heap[client.api]
       /\ (client # NoClient /\ last'.op = "Close") =>
            /\ client'.api = client.api
            /\ heap'[client.api] = heap[client.api] + 1
       /\ client = NoClient =>
            \/ client' = NoClient
            \/ /\ last'.op = "NewClient"
               /\ client'.api \notin DOMAIN heap
               /\ client'.api \in DOMAIN heap'
               /\ heap'[client'.api] = 0
      ]_vars

\* Text failed on a refused binding and the Client's handle is still open
C19_Witness ==
    /\ last.op = "Text"
    /\ last.err.kind = "bind"
    /\ client # NoClient
    /\ client.api \in OpenHandles

OtherFields(field) == DOMAIN NoClient \ {field}

SameBut(field) == \A f \in OtherFields(field) : client'[f] = client[f]

\* C20: every setter changes its own field only and calls the engine not at
\* all: SetImage changes ImagePath, SetLanguage Languages, SetVariable and
\* SetWhitelist the one key of Variables, SetPageSegMode PageSegMode, and a
\* successful SetConfigFile ConfigFilePath.  NewClient returns a Client with
\* Trim true, no variable, no language, no page segmentation mode and the
\* empty parameter-file path.
C20_SettersFrame ==
    [][/\ last'.op \in {"SetImage", "SetLanguage", "SetVariable", "SetWhitelist",
                        "SetPageSegMode", "SetConfigFile"} =>
            /\ last'.calls = <<>>
            /\ heap' = heap
       /\ last'.op = "SetImage" =>
            SameBut("ImagePath") /\ client'.ImagePath = last'.args[1]
       /\ last'.op = "SetLanguage" =>
            SameBut("Languages") /\ client'.Languages = last'.args[1]
       /\ last'.op = "SetVariable" =>
            /\ SameBut("Variables")
            /\ client'.Variables[last'.args[1]] = last'.args[2]
            /\ \A k \in DOMAIN client.Variables \cup DOMAIN client'.Variables :
                  k # last'.args[1] =>
                     /\ k \in DOMAIN client.Variables
                     /\ k \in DOMAIN client'.Variables
                     /\ client'.Variables[k] = client.Variables[k]
       /\ last'.op = "SetWhitelist" =>
            /\ SameBut("Variables")
            /\ client'.Variables[WhitelistKey] = last'.args[1]
            /\ \A k \in DOMAIN client.Variables \cup DOMAIN client'.Variables :
                  k # WhitelistKey =>
                     /\ k \in DOMAIN client.Variables
                     /\ k \in DOMAIN client'.Variables
                     /\ client'.Variables[k] = client.Variables[k]
       /\ last'.op = "SetPageSegMode" =>
            SameBut("PageSegMode") /\ client'.PageSegMode = <<last'.args[1]>>
       /\ (last'.op = "SetConfigFile" /\ last'.err = NoError) =>
            SameBut("ConfigFilePath") /\ client'.ConfigFilePath = last'.args[1]
       /\ last'.op = "NewClient" =>
            /\ client'.Trim
            /\ client'.Variables = EmptyMap
            /\ client'.Languages = <<>>
            /\ client'.PageSegMode = NULL
            /\ client'.ConfigFilePath = ""
      ]_vars

\* SetPageSegMode ran on a Client whose other fields were all set
C20_Witness ==
    /\ last.op = "SetPageSegMode"
    /\ client.PageSegMode = <<3>>
    /\ client.ImagePath = "a.png"
    /\ client.Languages = <<"eng">>
    /\ DOMAIN client.Variables = Keys
    /\ client.ConfigFilePath = "a.cfg"
    /\ ~client.Trim

====
